---- MODULE Spec2Model ----
(***************************************************************************)
(* Read-path caching and invalidation of the civic issue-tracking backend: *)
(* GET /api/reports and GET /api/admin/dashboard (cache-aside over Redis), *)
(* the mutations that invalidate them, and the Redis / MongoDB operations  *)
(* they issue.  A request advances one external operation (one await) per  *)
(* step.                                                                   *)
(***************************************************************************)
EXTENDS Integers, Sequences, FiniteSets, TLC

VARIABLES
  reports,   \* Reports collection: report id -> document
  upvotes,   \* Upvotes collection: <<user, report>> -> number of documents
  comments,  \* Comments collection: set of documents
  nextId,    \* next report id the store hands out
  nextCid,   \* next comment id the store hands out
  cache,     \* Redis: key -> entry
  req,       \* request slot -> the request it is serving (or the last one served)
  nreq       \* number of requests received so far

vars == <<reports, upvotes, comments, nextId, nextCid, cache, req, nreq>>

----------------------------------------------------------------------------
(* Bounds of the model *)

MaxReq == 3          \* requests received in one behaviour
MaxReports == 2      \* report ids the store hands out
MaxComments == 1     \* comment ids the store hands out
MaxHist == 4         \* requests of a behaviour that keeps every request
TickStep == 150      \* seconds the clock advances in one step

Users == {"u1", "u2"}
Admin == "admin"
ReportIds == 1..MaxReports
MissingId == 0         \* a well-formed id that no report ever had
Slots == {1}

Absent == "undefined"    \* a query parameter / document field that is not there

----------------------------------------------------------------------------
(* Enumerations of the source *)

StatusFilters == {"all", "Pending", "In Progress", "Fixed", "Rejected"}
TypeFilters == {"all", "Pothole", "Streetlight", "Graffiti", "Other"}
ValidStatuses == {"Pending", "In Progress", "Fixed", "Rejected"}
InvalidationTypes == <<"all", "Pothole", "Streetlight", "Graffiti", "Other">>

LongTTL == 2 * 300
ListTTL == 300
DashTTL == 300

(* Inputs the requests are drawn from *)
FilterInputs ==
  { <<Absent, Absent>>, <<"all", "Pothole">>, <<"Pending", Absent>>,
    <<"Bogus", Absent>>, <<Absent, "Bogus">> }
TypeInputs == {"Pothole", "Graffiti"}
AdminInputs ==
  { <<"Fixed", Absent>>, <<"Rejected", "dup">>, <<"Rejected", " ">>,
    <<"Pending", Absent>>, <<"Bogus", Absent>> }
DelFailures == { {}, 1..6 }
CacheOutcomes == {TRUE, FALSE}     \* a Redis command resolves or rejects
QueryOutcomes == {TRUE, FALSE}     \* a query of the listing resolves or rejects
WriteOutcomes == {TRUE}            \* outcomes drawn for the other store operations

----------------------------------------------------------------------------
(* Cache keys *)

DefaultAll(v) == IF v = Absent THEN "all" ELSE v

SharedCacheKey(status, type, userId) ==
  "reports:" \o status \o ":" \o type

ListCacheKey(status, type, userId) ==
  "reports:" \o status \o ":" \o type \o ":user:" \o userId

DashCacheKey == "admin:dashboard"

InvalidationKeysEveryUser(userId) ==
  [i \in 1..5 |-> "reports:all:" \o InvalidationTypes[i] \o ":user:" \o userId]
    \o << "reports:all:all:user:u1", "reports:all:all:user:u2" >>

InvalidationKeysAndDashboard(userId) ==
  [i \in 1..5 |-> "reports:all:" \o InvalidationTypes[i] \o ":user:" \o userId]
    \o << "admin:dashboard" >>

InvalidationKeys(userId) ==
  [i \in 1..5 |-> "reports:all:" \o InvalidationTypes[i] \o ":user:" \o userId]
    \o << "reports:all:all:user:" \o userId >>

AnyFilters(status, type) == TRUE

(* query('status').optional().isIn([...]), query('type').optional().isIn([...]) *)
ValidFilters(status, type) ==
  /\ (status = Absent \/ status \in StatusFilters)
  /\ (type = Absent \/ type \in TypeFilters)

----------------------------------------------------------------------------
(* Redis operations *)

CacheGetMiss(key) == {}

(* get(key): the set holding the value stored under key, empty when there is none *)
CacheGet(key) == IF key \in DOMAIN cache THEN {cache[key].value} ELSE {}
Value(got) == CHOOSE v \in got : TRUE

SetEx(c, key, ttl, value, who) ==
  [k \in DOMAIN c \cup {key} |->
     IF k = key THEN [value |-> value, ttl |-> ttl, age |-> 0, writer |-> who]
     ELSE c[k]]

Del(c, keys) == [k \in DOMAIN c \ keys |-> c[k]]

(* keys.map(key => redisClient.del(key)): the deletes at the positions in   *)
(* failed are rejected, all the others take effect                          *)
DelAll(c, keys, failed) ==
  Del(c, {keys[i] : i \in (1..Len(keys)) \ failed})

ExpireNever(c, d) == c

(* expiry: an entry is gone once its age reaches the ttl it was set with *)
Expire(c, d) ==
  [k \in {x \in DOMAIN c : c[x].age + d < c[x].ttl} |->
     [c[k] EXCEPT !.age = c[k].age + d]]

----------------------------------------------------------------------------
(* MongoDB queries *)

RECURSIVE SortAsc(_)
SortAsc(ids) ==
  IF ids = {} THEN << >>
  ELSE LET m == CHOOSE i \in ids : \A j \in ids : reports[i].createdAt <= reports[j].createdAt
       IN << reports[m] >> \o SortAsc(ids \ {m})

RECURSIVE SortDesc(_)
SortDesc(ids) ==
  IF ids = {} THEN << >>
  ELSE LET m == CHOOSE i \in ids : \A j \in ids : reports[j].createdAt <= reports[i].createdAt
       IN << reports[m] >> \o SortDesc(ids \ {m})

(* Report.find(filter).sort({ createdAt: -1 }) *)
ReportFind(status, type) ==
  SortDesc({ i \in DOMAIN reports :
               /\ (status # "all" => reports[i].status = status)
               /\ (type # "all" => reports[i].issueType = type) })

Ids(rs) == { rs[i].id : i \in 1..Len(rs) }

RECURSIVE SumUp(_, _)
SumUp(us, r) ==
  IF us = {} THEN 0
  ELSE LET u == CHOOSE x \in us : TRUE IN upvotes[<<u, r>>] + SumUp(us \ {u}, r)

(* Upvote.aggregate([$match report in ids, $group by report, count]) *)
UpvoteAgg(ids) ==
  [r \in { i \in ids : SumUp(Users, i) > 0 } |-> SumUp(Users, r)]

(* Comment.aggregate([$match report in ids, $group by report, count]) *)
CommentAgg(ids) ==
  [r \in { i \in ids : \E c \in comments : c.report = i } |->
     Cardinality({ c \in comments : c.report = r })]

(* Upvote.find({ user, report: { $in: ids } }).select('report') *)
MyUpvotes(userId, ids) == { r \in ids : upvotes[<<userId, r>>] > 0 }

OrOne(map, k) == IF k \in DOMAIN map THEN map[k] ELSE 1

OrZero(map, k) == IF k \in DOMAIN map THEN map[k] ELSE 0

Enrich(rs, ups, cms, myUps) ==
  [i \in 1..Len(rs) |->
     [ id |-> rs[i].id, user |-> rs[i].user, issueType |-> rs[i].issueType,
       status |-> rs[i].status, rejectReason |-> rs[i].rejectReason,
       createdAt |-> rs[i].createdAt, updatedAt |-> rs[i].updatedAt,
       upvoteCount |-> OrZero(ups, rs[i].id),
       commentCount |-> OrZero(cms, rs[i].id),
       hasUpvoted |-> rs[i].id \in myUps ]]

----------------------------------------------------------------------------
(* JSON: an object is written field by field, a field that is undefined is *)
(* left out; parsing gives undefined for a field that is not in the text   *)

StringifyView(v) ==
  << v.id, v.user, v.issueType, v.status, v.createdAt,
     v.upvoteCount, v.commentCount, v.hasUpvoted, v.updatedAt >>
    \o (IF v.rejectReason = Absent THEN << >> ELSE << v.rejectReason >>)

ParseView(t) ==
  [ id |-> t[1], user |-> t[2], issueType |-> t[3], status |-> t[4],
    createdAt |-> t[5], upvoteCount |-> t[6], commentCount |-> t[7],
    hasUpvoted |-> t[8], updatedAt |-> t[9],
    rejectReason |-> IF Len(t) > 9 THEN t[10] ELSE Absent ]

Stringify(vs) == [i \in 1..Len(vs) |-> StringifyView(vs[i])]
Parse(text) == [i \in 1..Len(text) |-> ParseView(text[i])]

StringifyDash(d) ==
  << d.total, d.pending, d.fixed, d.avgResolution, d.typeDistribution >>
ParseDash(t) ==
  [ total |-> t[1], pending |-> t[2], fixed |-> t[3], avgResolution |-> t[4],
    typeDistribution |-> t[5] ]

----------------------------------------------------------------------------
(* Requests *)

NoBody == << >>

Idle ==
  [ kind |-> "none", pc |-> "idle", n |-> 0, user |-> Absent, status |-> Absent,
    type |-> Absent, rid |-> 0, reason |-> Absent, key |-> Absent,
    code |-> 0, body |-> NoBody, local |-> NoBody,
    nq |-> 0, nc |-> 0, wrote |-> FALSE, inv |-> Absent, cause |-> "none",
    hit |-> FALSE, servedAge |-> 0, servedWriter |-> Absent ]

Finish(r, code, body) == [r EXCEPT !.pc = "done", !.code = code, !.body = body]
Fail(r, cause) == [Finish(r, 500, NoBody) EXCEPT !.cause = cause]

(* requests one behaviour receives: MaxReq, or one for each slot when there *)
(* are more slots than that                                                *)
Budget ==
  IF Cardinality(DOMAIN req) > MaxReq THEN Cardinality(DOMAIN req) ELSE MaxReq

CanStart(s) == req[s].pc \in {"idle", "done"} /\ nreq < Budget

(* ids a request can name: every id handed out so far, and one never handed out *)
Targets == {MissingId} \cup 1..(nextId - 1)

(* Date.now(), in milliseconds since the server started: the clock has moved *)
(* on with every request received                                          *)
Now == nreq

StoreUnchanged == UNCHANGED <<reports, upvotes, comments, nextId, nextCid>>

TypeOK ==
  /\ DOMAIN reports \subseteq ReportIds
  /\ nreq \in 0..Budget

Init ==
  /\ reports = << >>
  /\ upvotes = [p \in Users \X ({MissingId} \cup ReportIds) |-> 0]
  /\ comments = {}
  /\ nextId = 1
  /\ nextCid = 1
  /\ cache = << >>
  /\ req = [s \in Slots |-> Idle]
  /\ nreq = 0

----------------------------------------------------------------------------
(* GET /api/reports *)

(* validators, validate, cacheKey, redisClient.get *)
ListGet(s, u, status, type, cacheOk) ==
  /\ CanStart(s)
  /\ nreq' = nreq + 1
  /\ StoreUnchanged
  /\ UNCHANGED cache
  /\ LET r0 == [Idle EXCEPT !.n = nreq + 1, !.kind = "list", !.user = u,
                            !.status = status, !.type = type]
     IN IF ~ValidFilters(status, type)
        THEN req' = [req EXCEPT ![s] = [Finish(r0, 400, NoBody) EXCEPT !.cause = "invalid"]]
        ELSE LET key == ListCacheKey(DefaultAll(status), DefaultAll(type), u)
                 r1 == [r0 EXCEPT !.key = key, !.nc = 1,
                                  !.status = DefaultAll(status),
                                  !.type = DefaultAll(type)]
                 cached == CacheGet(key)
             IN IF ~cacheOk
                THEN req' = [req EXCEPT ![s] = Fail(r1, "cache")]
                ELSE IF cached # {}
                THEN req' = [req EXCEPT ![s] =
                       [Finish(r1, 200, Stringify(Parse(Value(cached)))) EXCEPT
                          !.hit = TRUE, !.servedAge = cache[key].age,
                          !.servedWriter = cache[key].writer]]
                ELSE req' = [req EXCEPT ![s] = [r1 EXCEPT !.pc = "find"]]

(* Report.find(filter).populate().sort().lean() *)
ListFind(s, storeOk) ==
  /\ req[s].kind = "list" /\ req[s].pc = "find"
  /\ StoreUnchanged
  /\ UNCHANGED <<cache, nreq>>
  /\ LET r1 == [req[s] EXCEPT !.nq = @ + 1]
     IN IF ~storeOk
        THEN req' = [req EXCEPT ![s] = Fail(r1, "store")]
        ELSE req' = [req EXCEPT ![s] =
               [r1 EXCEPT !.pc = "enrich",
                          !.local = ReportFind(req[s].status, req[s].type)]]

ListEnrichCachesPartial(s, failing) ==
  /\ req[s].kind = "list" /\ req[s].pc = "enrich"
  /\ StoreUnchanged
  /\ UNCHANGED nreq
  /\ LET r1 == [req[s] EXCEPT !.nq = @ + 3]
         rs == req[s].local
         ids == Ids(rs)
     IN IF failing # "none"
        THEN /\ req' = [req EXCEPT ![s] = Fail(r1, "store")]
             /\ cache' = SetEx(cache, req[s].key, ListTTL,
                               Stringify(Enrich(rs, << >>, << >>, {})), req[s].user)
        ELSE /\ req' = [req EXCEPT ![s] =
                  [r1 EXCEPT !.pc = "setEx",
                             !.local = Enrich(rs, UpvoteAgg(ids), CommentAgg(ids),
                                              MyUpvotes(req[s].user, ids))]]
             /\ UNCHANGED cache

(* Promise.all([Upvote.aggregate, Comment.aggregate, Upvote.find]) and the map *)
ListEnrich(s, failing) ==
  /\ req[s].kind = "list" /\ req[s].pc = "enrich"
  /\ StoreUnchanged
  /\ UNCHANGED <<cache, nreq>>
  /\ LET r1 == [req[s] EXCEPT !.nq = @ + 3]
         rs == req[s].local
         ids == Ids(rs)
     IN IF failing # "none"
        THEN req' = [req EXCEPT ![s] = Fail(r1, "store")]
        ELSE req' = [req EXCEPT ![s] =
               [r1 EXCEPT !.pc = "setEx",
                          !.local = Enrich(rs, UpvoteAgg(ids), CommentAgg(ids),
                                           MyUpvotes(req[s].user, ids))]]

(* The three queries of the Promise.all one by one: they are sent together   *)
(* and the store answers each at a time of its own.  q is the query that is *)
(* answered in this step; the views are built when the last one has been.   *)
ListQuery(s, q) ==
  /\ req[s].kind = "list" /\ req[s].pc \in {"enrich", "queries"}
  /\ StoreUnchanged
  /\ UNCHANGED <<cache, nreq>>
  /\ LET l0 == IF req[s].pc = "enrich"
               THEN [rs |-> req[s].local, ups |-> {}, cms |-> {}, mine |-> {}]
               ELSE req[s].local
         ids == Ids(l0.rs)
         l1 == CASE q = "ups" -> [l0 EXCEPT !.ups = {UpvoteAgg(ids)}]
                 [] q = "cms" -> [l0 EXCEPT !.cms = {CommentAgg(ids)}]
                 [] q = "mine" -> [l0 EXCEPT !.mine = {MyUpvotes(req[s].user, ids)}]
         r1 == [req[s] EXCEPT !.nq = @ + 1]
     IN /\ l0[q] = {}
        /\ IF l1.ups # {} /\ l1.cms # {} /\ l1.mine # {}
           THEN req' = [req EXCEPT ![s] =
                  [r1 EXCEPT !.pc = "setEx",
                             !.local = Enrich(l1.rs, Value(l1.ups), Value(l1.cms),
                                              Value(l1.mine))]]
           ELSE req' = [req EXCEPT ![s] = [r1 EXCEPT !.pc = "queries", !.local = l1]]

(* Upvote.aggregate *)
ListUpvoteAgg(s) == ListQuery(s, "ups")
(* Comment.aggregate *)
ListCommentAgg(s) == ListQuery(s, "cms")
(* Upvote.find({ user, report: { $in: ids } }) *)
ListMyUpvotes(s) == ListQuery(s, "mine")

(* redisClient.setEx(cacheKey, 300, JSON.stringify(enriched)); res.json(enriched) *)
ListSetEx(s, cacheOk) ==
  /\ req[s].kind = "list" /\ req[s].pc = "setEx"
  /\ StoreUnchanged
  /\ UNCHANGED nreq
  /\ LET r1 == [req[s] EXCEPT !.nc = @ + 1, !.local = NoBody]
         text == Stringify(req[s].local)
     IN IF ~cacheOk
        THEN /\ req' = [req EXCEPT ![s] = Fail(r1, "cache")]
             /\ UNCHANGED cache
        ELSE /\ cache' = SetEx(cache, req[s].key, ListTTL, text, req[s].user)
             /\ req' = [req EXCEPT ![s] = Finish(r1, 200, text)]

----------------------------------------------------------------------------
(* utils/cacheUtils.js: invalidateUserReportCache, as the last await of a  *)
(* handler; onError is the response of the handler when the call rejects   *)

InvalidateSkipped(s, userId, failed, okCode, okBody) ==
  /\ UNCHANGED cache
  /\ req' = [req EXCEPT ![s] = Finish([req[s] EXCEPT !.local = NoBody], okCode, okBody)]

Invalidate(s, userId, failed, okCode, okBody) ==
  LET r1 == [req[s] EXCEPT !.nc = @ + 6, !.inv = userId, !.local = NoBody]
  IN /\ cache' = DelAll(cache, InvalidationKeys(userId), failed)
     /\ IF failed # {}
        THEN req' = [req EXCEPT ![s] = Fail(r1, "cache")]
        ELSE req' = [req EXCEPT ![s] = Finish(r1, okCode, okBody)]

----------------------------------------------------------------------------
(* POST /api/reports *)

(* Report.create; the User.findById that follows reads the users collection *)
(* only and is taken to resolve                                              *)
CreateWrite(s, u, type, storeOk) ==
  /\ CanStart(s)
  /\ nextId <= MaxReports
  /\ nreq' = nreq + 1
  /\ UNCHANGED <<upvotes, comments, nextCid, cache>>
  /\ LET r0 == [Idle EXCEPT !.n = nreq + 1, !.kind = "create", !.user = u, !.type = type,
                            !.rid = nextId, !.nq = 1]
     IN IF ~storeOk
        THEN /\ req' = [req EXCEPT ![s] = Fail(r0, "store")]
             /\ UNCHANGED <<reports, nextId>>
        ELSE /\ reports' = [i \in DOMAIN reports \cup {nextId} |->
                  IF i = nextId
                  THEN [ id |-> nextId, user |-> u, issueType |-> type,
                         status |-> "Pending", rejectReason |-> Absent,
                         createdAt |-> Now + 1, updatedAt |-> Now + 1 ]
                  ELSE reports[i]]
             /\ nextId' = nextId + 1
             /\ req' = [req EXCEPT ![s] =
                  [r0 EXCEPT !.pc = "inv", !.wrote = TRUE, !.nq = 2]]

(* invalidateUserReportCache(req.user.id); res.status(201) *)
CreateInvalidate(s, failed) ==
  /\ req[s].kind = "create" /\ req[s].pc = "inv"
  /\ StoreUnchanged
  /\ UNCHANGED nreq
  /\ Invalidate(s, req[s].user, failed, 201, NoBody)

----------------------------------------------------------------------------
(* POST /api/reports/:id/upvote *)

(* Upvote.findOne({ user, report }) *)
UpvoteFind(s, u, rid, storeOk) ==
  /\ CanStart(s)
  /\ nreq' = nreq + 1
  /\ StoreUnchanged
  /\ UNCHANGED cache
  /\ LET r0 == [Idle EXCEPT !.n = nreq + 1, !.kind = "upvote", !.user = u, !.rid = rid, !.nq = 1]
     IN IF ~storeOk
        THEN req' = [req EXCEPT ![s] = Fail(r0, "store")]
        ELSE req' = [req EXCEPT ![s] =
               [r0 EXCEPT !.pc = "write",
                          !.local = [existing |-> upvotes[<<u, rid>>] > 0, count |-> 0]]]

UpvoteWriteNoIndex(s, storeOk) ==
  /\ req[s].kind = "upvote" /\ req[s].pc = "write"
  /\ UNCHANGED <<reports, comments, nextId, nextCid, cache, nreq>>
  /\ LET p == <<req[s].user, req[s].rid>>
     IN /\ upvotes' = [upvotes EXCEPT ![p] =
               IF req[s].local.existing THEN (IF @ > 0 THEN @ - 1 ELSE 0) ELSE @ + 1]
        /\ req' = [req EXCEPT ![s] = [@ EXCEPT !.nq = @ + 1, !.pc = "count", !.wrote = TRUE]]

UpvoteWriteKeeps(s, storeOk) ==
  /\ req[s].kind = "upvote" /\ req[s].pc = "write"
  /\ UNCHANGED <<reports, comments, nextId, nextCid, cache, nreq>>
  /\ LET p == <<req[s].user, req[s].rid>>
     IN /\ upvotes' = [upvotes EXCEPT ![p] = IF req[s].local.existing THEN @ ELSE @ + 1]
        /\ req' = [req EXCEPT ![s] = [@ EXCEPT !.nq = @ + 1, !.pc = "count", !.wrote = TRUE]]

(* existing.deleteOne() or Upvote.create(); the unique index on (user, report) *)
(* rejects a second document for the pair                                      *)
UpvoteWrite(s, storeOk) ==
  /\ req[s].kind = "upvote" /\ req[s].pc = "write"
  /\ UNCHANGED <<reports, comments, nextId, nextCid, cache, nreq>>
  /\ LET r1 == [req[s] EXCEPT !.nq = @ + 1]
         p == <<req[s].user, req[s].rid>>
     IN IF ~storeOk \/ (~req[s].local.existing /\ upvotes[p] > 0)
        THEN /\ req' = [req EXCEPT ![s] = Fail(r1, "store")]
             /\ UNCHANGED upvotes
        ELSE /\ upvotes' = [upvotes EXCEPT ![p] =
                  IF req[s].local.existing
                  THEN (IF @ > 0 THEN @ - 1 ELSE 0)
                  ELSE @ + 1]
             /\ req' = [req EXCEPT ![s] = [r1 EXCEPT !.pc = "count", !.wrote = TRUE]]

(* Upvote.countDocuments({ report }) *)
UpvoteCount(s, storeOk) ==
  /\ req[s].kind = "upvote" /\ req[s].pc = "count"
  /\ StoreUnchanged
  /\ UNCHANGED <<cache, nreq>>
  /\ LET r1 == [req[s] EXCEPT !.nq = @ + 1]
     IN IF ~storeOk
        THEN req' = [req EXCEPT ![s] = Fail(r1, "store")]
        ELSE req' = [req EXCEPT ![s] =
               [r1 EXCEPT !.pc = "inv",
                          !.local = [@ EXCEPT !.count = SumUp(Users, req[s].rid)]]]

(* invalidateUserReportCache(userId); res.json({ upvotes, upvoted }) *)
UpvoteInvalidate(s, failed) ==
  /\ req[s].kind = "upvote" /\ req[s].pc = "inv"
  /\ StoreUnchanged
  /\ UNCHANGED nreq
  /\ Invalidate(s, req[s].user, failed, 200,
                << req[s].local.count, ~req[s].local.existing >>)

----------------------------------------------------------------------------
(* POST /api/reports/:id/comments *)

(* Comment.create; comment.populate reads the users collection only and is *)
(* taken to resolve                                                        *)
CommentCreate(s, u, rid, storeOk) ==
  /\ CanStart(s)
  /\ nextCid <= MaxComments
  /\ nreq' = nreq + 1
  /\ UNCHANGED <<reports, upvotes, nextId, cache>>
  /\ LET r0 == [Idle EXCEPT !.n = nreq + 1, !.kind = "comment", !.user = u, !.rid = rid, !.nq = 1]
     IN IF ~storeOk
        THEN /\ req' = [req EXCEPT ![s] = Fail(r0, "store")]
             /\ UNCHANGED <<comments, nextCid>>
        ELSE /\ comments' = comments \cup
                  {[ id |-> nextCid, user |-> u, report |-> rid, text |-> "text",
                     updatedAt |-> Now + 1 ]}
             /\ nextCid' = nextCid + 1
             /\ req' = [req EXCEPT ![s] =
                  [r0 EXCEPT !.pc = "inv", !.wrote = TRUE, !.nq = 2]]

(* invalidateUserReportCache(req.user.id); res.status(201) *)
CommentInvalidate(s, failed) ==
  /\ req[s].kind = "comment" /\ req[s].pc = "inv"
  /\ StoreUnchanged
  /\ UNCHANGED nreq
  /\ Invalidate(s, req[s].user, failed, 201, NoBody)

----------------------------------------------------------------------------
(* PUT /api/comments/:id, DELETE /api/comments/:id *)

(* comment ids a request can name *)
CommentTargets == {MissingId} \cup 1..(nextCid - 1)
EditTexts == {"edited"}

(* Comment.findById and the 404 / 403 checks *)
CommentFind(s, kind, u, cid, text, storeOk) ==
  /\ CanStart(s)
  /\ nreq' = nreq + 1
  /\ StoreUnchanged
  /\ UNCHANGED cache
  /\ LET r0 == [Idle EXCEPT !.n = nreq + 1, !.kind = kind, !.user = u, !.rid = cid,
                            !.reason = text, !.nq = 1]
     IN IF ~storeOk
        THEN req' = [req EXCEPT ![s] = Fail(r0, "store")]
        ELSE IF \A c \in comments : c.id # cid
        THEN req' = [req EXCEPT ![s] = Finish(r0, 404, NoBody)]
        ELSE IF \E c \in comments : c.id = cid /\ c.user # u
        THEN req' = [req EXCEPT ![s] = Finish(r0, 403, NoBody)]
        ELSE req' = [req EXCEPT ![s] = [r0 EXCEPT !.pc = "write"]]

CommentEditFind(s, u, cid, text, storeOk) ==
  CommentFind(s, "commentEdit", u, cid, text, storeOk)

(* comment.text = text; comment.updatedAt = Date.now(); comment.save(), which *)
(* rejects when the document is no longer there; comment.populate reads the   *)
(* users collection only and is taken to resolve; res.json(comment)           *)
CommentEditSave(s, storeOk) ==
  /\ req[s].kind = "commentEdit" /\ req[s].pc = "write"
  /\ UNCHANGED <<reports, upvotes, nextId, nextCid, cache, nreq>>
  /\ LET r1 == [req[s] EXCEPT !.nq = @ + 1]
     IN IF ~storeOk \/ \A c \in comments : c.id # req[s].rid
        THEN /\ req' = [req EXCEPT ![s] = Fail(r1, "store")]
             /\ UNCHANGED comments
        ELSE /\ comments' =
                  { IF c.id = req[s].rid
                    THEN [c EXCEPT !.text = req[s].reason, !.updatedAt = Now]
                    ELSE c : c \in comments }
             /\ req' = [req EXCEPT ![s] = [Finish(r1, 200, NoBody) EXCEPT !.wrote = TRUE]]

CommentDeleteFind(s, u, cid, storeOk) ==
  CommentFind(s, "commentDelete", u, cid, Absent, storeOk)

(* comment.deleteOne(): removes the document with this id, if it is still *)
(* there; res.json                                                        *)
CommentDeleteWrite(s, storeOk) ==
  /\ req[s].kind = "commentDelete" /\ req[s].pc = "write"
  /\ UNCHANGED <<reports, upvotes, nextId, nextCid, cache, nreq>>
  /\ LET r1 == [req[s] EXCEPT !.nq = @ + 1]
     IN IF ~storeOk
        THEN /\ req' = [req EXCEPT ![s] = Fail(r1, "store")]
             /\ UNCHANGED comments
        ELSE /\ comments' = { c \in comments : c.id # req[s].rid }
             /\ req' = [req EXCEPT ![s] = [Finish(r1, 200, NoBody) EXCEPT !.wrote = TRUE]]

----------------------------------------------------------------------------
(* PUT /api/reports/:id *)

(* Report.findById and the 404 / 403 checks *)
EditFind(s, u, rid, type, storeOk) ==
  /\ CanStart(s)
  /\ nreq' = nreq + 1
  /\ StoreUnchanged
  /\ UNCHANGED cache
  /\ LET r0 == [Idle EXCEPT !.n = nreq + 1, !.kind = "edit", !.user = u, !.rid = rid,
                            !.type = type, !.nq = 1]
     IN IF ~storeOk
        THEN req' = [req EXCEPT ![s] = Fail(r0, "store")]
        ELSE IF rid \notin DOMAIN reports
        THEN req' = [req EXCEPT ![s] = Finish(r0, 404, NoBody)]
        ELSE IF reports[rid].user # u
        THEN req' = [req EXCEPT ![s] = Finish(r0, 403, NoBody)]
        ELSE req' = [req EXCEPT ![s] = [r0 EXCEPT !.pc = "write"]]

(* rpt.save(): the modified paths are written to the document with this id; *)
(* save rejects when the document is no longer there                        *)
EditSave(s, storeOk) ==
  /\ req[s].kind = "edit" /\ req[s].pc = "write"
  /\ UNCHANGED <<upvotes, comments, nextId, nextCid, cache, nreq>>
  /\ LET r1 == [req[s] EXCEPT !.nq = @ + 1]
     IN IF ~storeOk \/ req[s].rid \notin DOMAIN reports
        THEN /\ req' = [req EXCEPT ![s] = Fail(r1, "store")]
             /\ UNCHANGED reports
        ELSE /\ reports' = [reports EXCEPT ![req[s].rid] =
                  [@ EXCEPT !.issueType = req[s].type, !.updatedAt = Now]]
             /\ req' = [req EXCEPT ![s] = [r1 EXCEPT !.pc = "inv", !.wrote = TRUE]]

(* invalidateUserReportCache(req.user.id); res.json *)
EditInvalidate(s, failed) ==
  /\ req[s].kind = "edit" /\ req[s].pc = "inv"
  /\ StoreUnchanged
  /\ UNCHANGED nreq
  /\ Invalidate(s, req[s].user, failed, 200, NoBody)

----------------------------------------------------------------------------
(* DELETE /api/reports/:id *)

(* Report.findById and the 404 / 403 / 400 checks *)
DeleteFind(s, u, rid, storeOk) ==
  /\ CanStart(s)
  /\ nreq' = nreq + 1
  /\ StoreUnchanged
  /\ UNCHANGED cache
  /\ LET r0 == [Idle EXCEPT !.n = nreq + 1, !.kind = "delete", !.user = u, !.rid = rid, !.nq = 1]
     IN IF ~storeOk
        THEN req' = [req EXCEPT ![s] = Fail(r0, "store")]
        ELSE IF rid \notin DOMAIN reports
        THEN req' = [req EXCEPT ![s] = Finish(r0, 404, NoBody)]
        ELSE IF reports[rid].user # u
        THEN req' = [req EXCEPT ![s] = Finish(r0, 403, NoBody)]
        ELSE IF reports[rid].status # "Pending"
        THEN req' = [req EXCEPT ![s] = Finish(r0, 400, NoBody)]
        ELSE req' = [req EXCEPT ![s] = [r0 EXCEPT !.pc = "write"]]

(* rpt.deleteOne(): removes the document with this id, if it is still there *)
DeleteWrite(s, storeOk) ==
  /\ req[s].kind = "delete" /\ req[s].pc = "write"
  /\ UNCHANGED <<upvotes, comments, nextId, nextCid, cache, nreq>>
  /\ LET r1 == [req[s] EXCEPT !.nq = @ + 1]
     IN IF ~storeOk
        THEN /\ req' = [req EXCEPT ![s] = Fail(r1, "store")]
             /\ UNCHANGED reports
        ELSE /\ reports' = [i \in DOMAIN reports \ {req[s].rid} |-> reports[i]]
             /\ req' = [req EXCEPT ![s] = [r1 EXCEPT !.pc = "inv", !.wrote = TRUE]]

(* invalidateUserReportCache(req.user.id); res.json *)
DeleteInvalidate(s, failed) ==
  /\ req[s].kind = "delete" /\ req[s].pc = "inv"
  /\ StoreUnchanged
  /\ UNCHANGED nreq
  /\ Invalidate(s, req[s].user, failed, 200, NoBody)

----------------------------------------------------------------------------
(* PATCH /api/admin/reports/:id/status *)

NoTrim(t) == t

Trim(t) == IF t = " " THEN "" ELSE t
Blank(t) == t = Absent \/ Trim(t) = ""

(* the two 400 checks, Report.findByIdAndUpdate, the 404 check *)
AdminUpdate(s, rid, status, reason, storeOk) ==
  /\ CanStart(s)
  /\ nreq' = nreq + 1
  /\ UNCHANGED <<upvotes, comments, nextId, nextCid, cache>>
  /\ LET r0 == [Idle EXCEPT !.n = nreq + 1, !.kind = "admin", !.user = Admin, !.rid = rid,
                            !.status = status, !.reason = reason]
         r1 == [r0 EXCEPT !.nq = 1]
     IN IF status \notin ValidStatuses \/ (status = "Rejected" /\ Blank(reason))
        THEN /\ req' = [req EXCEPT ![s] = [Finish(r0, 400, NoBody) EXCEPT !.cause = "invalid"]]
             /\ UNCHANGED reports
        ELSE IF ~storeOk
        THEN /\ req' = [req EXCEPT ![s] = Fail(r1, "store")]
             /\ UNCHANGED reports
        ELSE IF rid \notin DOMAIN reports
        THEN /\ req' = [req EXCEPT ![s] = Finish(r1, 404, NoBody)]
             /\ UNCHANGED reports
        ELSE /\ reports' = [reports EXCEPT ![rid] =
                  [@ EXCEPT !.status = status, !.updatedAt = Now + 1,
                            !.rejectReason =
                               IF status = "Rejected" THEN Trim(reason) ELSE Absent]]
             /\ req' = [req EXCEPT ![s] = [r1 EXCEPT !.pc = "inv", !.wrote = TRUE]]

(* redisClient.del('admin:dashboard'), User.findById, res.json(report) *)
AdminInvalidate(s, cacheOk, storeOk) ==
  /\ req[s].kind = "admin" /\ req[s].pc = "inv"
  /\ StoreUnchanged
  /\ UNCHANGED nreq
  /\ LET r1 == [req[s] EXCEPT !.nc = @ + 1]
         r2 == [r1 EXCEPT !.inv = DashCacheKey, !.nq = @ + 1]
     IN IF ~cacheOk
        THEN /\ req' = [req EXCEPT ![s] = Fail(r1, "cache")]
             /\ UNCHANGED cache
        ELSE /\ cache' = Del(cache, {DashCacheKey})
             /\ IF ~storeOk
                THEN req' = [req EXCEPT ![s] = Fail(r2, "store")]
                ELSE req' = [req EXCEPT ![s] = Finish(r2, 200, NoBody)]

----------------------------------------------------------------------------
(* GET /api/admin/dashboard *)

CountAll(status) == Cardinality(DOMAIN reports)

(* Report.countDocuments(), Report.countDocuments({ status }) *)
CountReports(status) ==
  Cardinality({ i \in DOMAIN reports : status = Absent \/ reports[i].status = status })

(* Report.aggregate([{ $group: { _id: '$issueType', count } }]) *)
ByTypeAgg ==
  [t \in { reports[i].issueType : i \in DOMAIN reports } |->
     Cardinality({ i \in DOMAIN reports : reports[i].issueType = t })]

(* Report.find({ status: 'Fixed' }) *)
FixedDocs == { i \in DOMAIN reports : reports[i].status = "Fixed" }

(* fixedDocs.reduce((sum, r) => sum + (r.updatedAt - r.createdAt) / DayMs, 0) *)
(* times DayMs                                                               *)
RECURSIVE SumResolution(_)
SumResolution(ids) ==
  IF ids = {} THEN 0
  ELSE LET i == CHOOSE x \in ids : TRUE
       IN (reports[i].updatedAt - reports[i].createdAt) + SumResolution(ids \ {i})

DayMs == 1000 * 60 * 60 * 24
TenthMs == DayMs \div 10

ToFixedDown(sum, n) == { sum \div (n * TenthMs) }

(* (sum / n).toFixed(1), then parseFloat, in tenths: the integers t with     *)
(* t / 10 nearest to the mean, which is sum / (n * DayMs) days.  Where two   *)
(* are equally near, the rounding error of the floating-point sum decides.   *)
ToFixed1(sum, n) ==
  { t \in { sum \div (n * TenthMs), sum \div (n * TenthMs) + 1 } :
      LET diff == t * (n * TenthMs) - sum
      IN 2 * (IF diff < 0 THEN 0 - diff ELSE diff) <= n * TenthMs }

(* fixedDocs.length ? (... / fixedDocs.length).toFixed(1) : 0 *)
AvgResolution(ids) ==
  IF ids = {} THEN {0} ELSE ToFixed1(SumResolution(ids), Cardinality(ids))

(* redisClient.get('admin:dashboard') *)
DashGet(s, cacheOk) ==
  /\ CanStart(s)
  /\ nreq' = nreq + 1
  /\ StoreUnchanged
  /\ UNCHANGED cache
  /\ LET r1 == [Idle EXCEPT !.n = nreq + 1, !.kind = "dash", !.user = Admin, !.key = DashCacheKey,
                            !.nc = 1]
         cached == CacheGet(DashCacheKey)
     IN IF ~cacheOk
        THEN req' = [req EXCEPT ![s] = Fail(r1, "cache")]
        ELSE IF cached # {}
        THEN req' = [req EXCEPT ![s] =
               [Finish(r1, 200, StringifyDash(ParseDash(Value(cached)))) EXCEPT
                  !.hit = TRUE, !.servedAge = cache[DashCacheKey].age,
                  !.servedWriter = cache[DashCacheKey].writer]]
        ELSE req' = [req EXCEPT ![s] =
               [r1 EXCEPT !.pc = "total",
                          !.local = [total |-> 0, pending |-> 0, fixed |-> 0,
                                     avgResolution |-> 0,
                                     typeDistribution |-> << >>]]]

(* one of the store queries of the dashboard, in the order of the handler *)
DashQuery(s, at, to, storeOk, local) ==
  /\ req[s].kind = "dash" /\ req[s].pc = at
  /\ StoreUnchanged
  /\ UNCHANGED <<cache, nreq>>
  /\ LET r1 == [req[s] EXCEPT !.nq = @ + 1]
     IN IF ~storeOk
        THEN req' = [req EXCEPT ![s] = Fail(r1, "store")]
        ELSE req' = [req EXCEPT ![s] = [r1 EXCEPT !.pc = to, !.local = local]]

(* Report.countDocuments() *)
DashTotal(s, storeOk) ==
  DashQuery(s, "total", "pending", storeOk,
            [req[s].local EXCEPT !.total = CountReports(Absent)])

(* Report.countDocuments({ status: 'Pending' }) *)
DashPending(s, storeOk) ==
  DashQuery(s, "pending", "fixed", storeOk,
            [req[s].local EXCEPT !.pending = CountReports("Pending")])

(* Report.countDocuments({ status: 'Fixed' }) *)
DashFixed(s, storeOk) ==
  DashQuery(s, "fixed", "fixedDocs", storeOk,
            [req[s].local EXCEPT !.fixed = CountReports("Fixed")])

(* Report.find({ status: 'Fixed' }).select('createdAt updatedAt') and the *)
(* avgResolution computed from it                                        *)
DashFixedDocs(s, storeOk) ==
  \E avg \in AvgResolution(FixedDocs) :
    DashQuery(s, "fixedDocs", "byType", storeOk,
              [req[s].local EXCEPT !.avgResolution = avg])

(* Report.aggregate by issueType *)
DashByType(s, storeOk) ==
  DashQuery(s, "byType", "setEx", storeOk,
            [req[s].local EXCEPT !.typeDistribution = ByTypeAgg])

(* redisClient.setEx('admin:dashboard', 300, JSON.stringify(result)); res.json(result) *)
DashSetEx(s, cacheOk) ==
  /\ req[s].kind = "dash" /\ req[s].pc = "setEx"
  /\ StoreUnchanged
  /\ UNCHANGED nreq
  /\ LET r1 == [req[s] EXCEPT !.nc = @ + 1, !.local = NoBody]
         text == StringifyDash(req[s].local)
     IN IF ~cacheOk
        THEN /\ req' = [req EXCEPT ![s] = Fail(r1, "cache")]
             /\ UNCHANGED cache
        ELSE /\ cache' = SetEx(cache, DashCacheKey, DashTTL, text, Admin)
             /\ req' = [req EXCEPT ![s] = Finish(r1, 200, text)]

----------------------------------------------------------------------------
(* time passes *)
Tick ==
  /\ cache # << >>
  /\ cache' = Expire(cache, TickStep)
  /\ StoreUnchanged
  /\ UNCHANGED <<req, nreq>>

Next ==
  \/ \E s \in Slots, u \in Users, f \in FilterInputs, ok \in CacheOutcomes :
       ListGet(s, u, f[1], f[2], ok)
  \/ \E s \in Slots, ok \in QueryOutcomes : ListFind(s, ok)
  \/ \E s \in Slots, failing \in {"none", "cms"} : ListEnrich(s, failing)
  \/ \E s \in Slots, ok \in CacheOutcomes : ListSetEx(s, ok)
  \/ \E s \in Slots, u \in Users, t \in TypeInputs, ok \in WriteOutcomes :
       CreateWrite(s, u, t, ok)
  \/ \E s \in Slots, failed \in DelFailures : CreateInvalidate(s, failed)
  \/ \E s \in Slots, u \in Users, rid \in Targets, ok \in WriteOutcomes :
       UpvoteFind(s, u, rid, ok)
  \/ \E s \in Slots, ok \in WriteOutcomes : UpvoteWrite(s, ok)
  \/ \E s \in Slots, ok \in WriteOutcomes : UpvoteCount(s, ok)
  \/ \E s \in Slots, failed \in DelFailures : UpvoteInvalidate(s, failed)
  \/ \E s \in Slots, u \in Users, rid \in Targets, ok \in WriteOutcomes :
       CommentCreate(s, u, rid, ok)
  \/ \E s \in Slots, failed \in DelFailures : CommentInvalidate(s, failed)
  \/ \E s \in Slots, u \in Users, cid \in CommentTargets, t \in EditTexts,
          ok \in WriteOutcomes :
       CommentEditFind(s, u, cid, t, ok)
  \/ \E s \in Slots, ok \in WriteOutcomes : CommentEditSave(s, ok)
  \/ \E s \in Slots, u \in Users, cid \in CommentTargets, ok \in WriteOutcomes :
       CommentDeleteFind(s, u, cid, ok)
  \/ \E s \in Slots, ok \in WriteOutcomes : CommentDeleteWrite(s, ok)
  \/ \E s \in Slots, u \in Users, rid \in Targets, t \in TypeInputs, ok \in WriteOutcomes :
       EditFind(s, u, rid, t, ok)
  \/ \E s \in Slots, ok \in WriteOutcomes : EditSave(s, ok)
  \/ \E s \in Slots, failed \in DelFailures : EditInvalidate(s, failed)
  \/ \E s \in Slots, u \in Users, rid \in Targets, ok \in WriteOutcomes :
       DeleteFind(s, u, rid, ok)
  \/ \E s \in Slots, ok \in WriteOutcomes : DeleteWrite(s, ok)
  \/ \E s \in Slots, failed \in DelFailures : DeleteInvalidate(s, failed)
  \/ \E s \in Slots, rid \in Targets, a \in AdminInputs, ok \in WriteOutcomes :
       AdminUpdate(s, rid, a[1], a[2], ok)
  \/ \E s \in Slots, cok \in CacheOutcomes, sok \in WriteOutcomes :
       AdminInvalidate(s, cok, sok)
  \/ \E s \in Slots, ok \in CacheOutcomes : DashGet(s, ok)
  \/ \E s \in Slots, ok \in WriteOutcomes : DashTotal(s, ok)
  \/ \E s \in Slots, ok \in WriteOutcomes : DashPending(s, ok)
  \/ \E s \in Slots, ok \in WriteOutcomes : DashFixed(s, ok)
  \/ \E s \in Slots, ok \in WriteOutcomes : DashFixedDocs(s, ok)
  \/ \E s \in Slots, ok \in WriteOutcomes : DashByType(s, ok)
  \/ \E s \in Slots, ok \in CacheOutcomes : DashSetEx(s, ok)
  \/ Tick

Spec == Init /\ [][Next]_vars

----------------------------------------------------------------------------
(* Two requests in flight: Node runs one handler until its next await, so  *)
(* the steps of two handlers interleave at the awaits.  Every Redis and    *)
(* MongoDB operation resolves.                                             *)

LiveFilters == { <<Absent, Absent>>, <<"Pending", Absent>> }
LiveInputs == { <<"Fixed", Absent>> }
ConcSlots == {1, 2}
ConcFilters == { <<Absent, Absent>> }
ConcTypes == {"Pothole"}

InitConc ==
  /\ reports = << >>
  /\ upvotes = [p \in Users \X ({MissingId} \cup ReportIds) |-> 0]
  /\ comments = {}
  /\ nextId = 1
  /\ nextCid = 1
  /\ cache = << >>
  /\ req = [s \in ConcSlots |-> Idle]
  /\ nreq = 0

NextConc ==
  \/ \E s \in ConcSlots, u \in Users, f \in ConcFilters : ListGet(s, u, f[1], f[2], TRUE)
  \/ \E s \in ConcSlots : ListFind(s, TRUE)
  \/ \E s \in ConcSlots : ListUpvoteAgg(s)
  \/ \E s \in ConcSlots : ListCommentAgg(s)
  \/ \E s \in ConcSlots : ListMyUpvotes(s)
  \/ \E s \in ConcSlots : ListSetEx(s, TRUE)
  \/ \E s \in ConcSlots, u \in Users, t \in ConcTypes : CreateWrite(s, u, t, TRUE)
  \/ \E s \in ConcSlots : CreateInvalidate(s, {})
  \/ \E s \in ConcSlots, u \in Users, rid \in Targets : UpvoteFind(s, u, rid, TRUE)
  \/ \E s \in ConcSlots : UpvoteWrite(s, TRUE)
  \/ \E s \in ConcSlots : UpvoteCount(s, TRUE)
  \/ \E s \in ConcSlots : UpvoteInvalidate(s, {})

SpecConc == InitConc /\ [][NextConc]_vars

----------------------------------------------------------------------------
(* Two requests in flight among the dashboard, report create and delete and *)
(* the admin status change.  Every Redis and MongoDB operation resolves.    *)

ConcAdminInputs == { <<"Fixed", Absent>> }

NextConcAdmin ==
  \/ \E s \in ConcSlots : DashGet(s, TRUE)
  \/ \E s \in ConcSlots : DashTotal(s, TRUE)
  \/ \E s \in ConcSlots : DashPending(s, TRUE)
  \/ \E s \in ConcSlots : DashFixed(s, TRUE)
  \/ \E s \in ConcSlots : DashFixedDocs(s, TRUE)
  \/ \E s \in ConcSlots : DashByType(s, TRUE)
  \/ \E s \in ConcSlots : DashSetEx(s, TRUE)
  \/ \E s \in ConcSlots, u \in Users, t \in ConcTypes : CreateWrite(s, u, t, TRUE)
  \/ \E s \in ConcSlots : CreateInvalidate(s, {})
  \/ \E s \in ConcSlots, u \in Users, rid \in Targets : DeleteFind(s, u, rid, TRUE)
  \/ \E s \in ConcSlots : DeleteWrite(s, TRUE)
  \/ \E s \in ConcSlots : DeleteInvalidate(s, {})
  \/ \E s \in ConcSlots, rid \in Targets, a \in ConcAdminInputs :
       AdminUpdate(s, rid, a[1], a[2], TRUE)
  \/ \E s \in ConcSlots : AdminInvalidate(s, TRUE, TRUE)

SpecConcAdmin == InitConc /\ [][NextConcAdmin]_vars

----------------------------------------------------------------------------
(* Requests served one at a time by a server that starts on a store that    *)
(* holds one Pending report of u1 with one comment of u1, written before    *)
(* the start (clock 0), and an empty cache.  Every operation resolves.      *)

InitSeeded ==
  /\ reports = [i \in {1} |->
       [ id |-> 1, user |-> "u1", issueType |-> "Pothole", status |-> "Pending",
         rejectReason |-> Absent, createdAt |-> 0 - 2, updatedAt |-> 0 - 2 ]]
  /\ upvotes = [p \in Users \X ({MissingId} \cup ReportIds) |-> 0]
  /\ comments = {[ id |-> 1, user |-> "u1", report |-> 1, text |-> "text",
                   updatedAt |-> 0 - 1 ]}
  /\ nextId = 2
  /\ nextCid = 2
  /\ cache = << >>
  /\ req = [s \in Slots |-> Idle]
  /\ nreq = 0

NextSeeded ==
  \/ \E s \in Slots, u \in Users, f \in LiveFilters : ListGet(s, u, f[1], f[2], TRUE)
  \/ \E s \in Slots : ListFind(s, TRUE)
  \/ \E s \in Slots : ListEnrich(s, "none")
  \/ \E s \in Slots : ListSetEx(s, TRUE)
  \/ \E s \in Slots, u \in Users, cid \in CommentTargets : CommentDeleteFind(s, u, cid, TRUE)
  \/ \E s \in Slots : CommentDeleteWrite(s, TRUE)
  \/ \E s \in Slots, rid \in Targets, a \in AdminInputs : AdminUpdate(s, rid, a[1], a[2], TRUE)
  \/ \E s \in Slots : AdminInvalidate(s, TRUE, TRUE)

SpecSeeded == InitSeeded /\ [][NextSeeded]_vars

----------------------------------------------------------------------------
(* Requests served one after the other, each kept in a slot of its own (the *)
(* n-th request in slot n), so that a state holds every response given so   *)
(* far.  Every Redis and MongoDB operation resolves and no entry expires.   *)

HistSlots == 1..MaxHist

InitHist ==
  /\ reports = << >>
  /\ upvotes = [p \in Users \X ({MissingId} \cup ReportIds) |-> 0]
  /\ comments = {}
  /\ nextId = 1
  /\ nextCid = 1
  /\ cache = << >>
  /\ req = [s \in HistSlots |-> Idle]
  /\ nreq = 0

(* slot s takes the next request, and no request is in flight *)
Turn(s) == s = nreq + 1 /\ \A t \in HistSlots : req[t].pc \in {"idle", "done"}

NextHist ==
  \/ \E s \in HistSlots, u \in Users, f \in ConcFilters :
       Turn(s) /\ ListGet(s, u, f[1], f[2], TRUE)
  \/ \E s \in HistSlots : ListFind(s, TRUE)
  \/ \E s \in HistSlots : ListEnrich(s, "none")
  \/ \E s \in HistSlots : ListSetEx(s, TRUE)
  \/ \E s \in HistSlots, u \in Users, t \in ConcTypes :
       Turn(s) /\ CreateWrite(s, u, t, TRUE)
  \/ \E s \in HistSlots : CreateInvalidate(s, {})
  \/ \E s \in HistSlots, u \in Users, rid \in Targets :
       Turn(s) /\ UpvoteFind(s, u, rid, TRUE)
  \/ \E s \in HistSlots : UpvoteWrite(s, TRUE)
  \/ \E s \in HistSlots : UpvoteCount(s, TRUE)
  \/ \E s \in HistSlots : UpvoteInvalidate(s, {})
  \/ \E s \in HistSlots, u \in Users, rid \in Targets :
       Turn(s) /\ CommentCreate(s, u, rid, TRUE)
  \/ \E s \in HistSlots : CommentInvalidate(s, {})

SpecHist == InitHist /\ [][NextHist]_vars

----------------------------------------------------------------------------
(* The dashboard computed over a Reports collection found at start-up: the  *)
(* reports were created, and resolved or edited, before the server started  *)
(* (clock 0), each a given time after its creation.                         *)

Durations == { 0, DayMs \div 12, DayMs \div 4, DayMs, 3 * DayMs }
AvgStatuses == {"Fixed", "Pending"}

InitAvg ==
  /\ \E n \in 0..MaxReports :
       \E st \in [1..n -> AvgStatuses], d \in [1..n -> Durations] :
         /\ reports = [i \in 1..n |->
              [ id |-> i, user |-> "u1", issueType |-> "Pothole",
                status |-> st[i], rejectReason |-> Absent,
                createdAt |-> (i - n - 1) - d[i], updatedAt |-> i - n - 1 ]]
         /\ nextId = n + 1
  /\ upvotes = [p \in Users \X ({MissingId} \cup ReportIds) |-> 0]
  /\ comments = {}
  /\ nextCid = 1
  /\ cache = << >>
  /\ req = [s \in Slots |-> Idle]
  /\ nreq = 0

NextAvg ==
  \/ \E s \in Slots : DashGet(s, TRUE)
  \/ \E s \in Slots : DashTotal(s, TRUE)
  \/ \E s \in Slots : DashPending(s, TRUE)
  \/ \E s \in Slots : DashFixed(s, TRUE)
  \/ \E s \in Slots : DashFixedDocs(s, TRUE)
  \/ \E s \in Slots : DashByType(s, TRUE)
  \/ \E s \in Slots : DashSetEx(s, TRUE)

SpecAvg == InitAvg /\ [][NextAvg]_vars

----------------------------------------------------------------------------
(* Time progress: the clock of the cache does not stop, so a step of Tick   *)
(* that stays possible is taken.  Requests are served one at a time; the    *)
(* deletes of an invalidation may fail, the other operations resolve.       *)

NextLive ==
  \/ \E s \in Slots, u \in Users, f \in LiveFilters : ListGet(s, u, f[1], f[2], TRUE)
  \/ \E s \in Slots : ListFind(s, TRUE)
  \/ \E s \in Slots : ListEnrich(s, "none")
  \/ \E s \in Slots : ListSetEx(s, TRUE)
  \/ \E s \in Slots, u \in Users, t \in ConcTypes : CreateWrite(s, u, t, TRUE)
  \/ \E s \in Slots, failed \in DelFailures : CreateInvalidate(s, failed)
  \/ \E s \in Slots, rid \in Targets, a \in LiveInputs : AdminUpdate(s, rid, a[1], a[2], TRUE)
  \/ \E s \in Slots : AdminInvalidate(s, TRUE, TRUE)
  \/ \E s \in Slots : DashGet(s, TRUE)
  \/ \E s \in Slots : DashTotal(s, TRUE)
  \/ \E s \in Slots : DashPending(s, TRUE)
  \/ \E s \in Slots : DashFixed(s, TRUE)
  \/ \E s \in Slots : DashFixedDocs(s, TRUE)
  \/ \E s \in Slots : DashByType(s, TRUE)
  \/ \E s \in Slots : DashSetEx(s, TRUE)
  \/ Tick

SpecLive == Init /\ [][NextLive]_vars /\ WF_vars(Tick)

----------------------------------------------------------------------------
(* Properties *)

ReadKinds == {"list", "dash"}
SixMutations == {"create", "edit", "delete", "upvote", "comment", "admin"}
Success == {200, 201}

(* slot s receives a new request in this step *)
Starts(s) == nreq' = nreq + 1 /\ req'[s].n = nreq'

(* what a listing computed from the store as it is now is, on the wire *)
FreshListing(status, type, userId) ==
  LET rs == ReportFind(status, type)
      ids == Ids(rs)
  IN Stringify(Enrich(rs, UpvoteAgg(ids), CommentAgg(ids), MyUpvotes(userId, ids)))

(* the user whose listings a finished mutation changed *)
Affected(r) == IF r.kind = "admin" THEN reports[r.rid].user ELSE r.user

(* C1: a read (listing or dashboard) that finds an entry under its key, and *)
(* whose cache get does not fail, answers 200 with exactly the text stored  *)
(* by the read that populated the entry, which is the text that read        *)
(* returned, and issues no Document Store query; cache and store stay as    *)
(* they are.                                                                *)
C1_SecondReadServedFromCache ==
  [][\A s \in Slots :
       /\ (Starts(s) /\ req'[s].kind \in ReadKinds /\ req'[s].key \in DOMAIN cache
             /\ req'[s].cause # "cache")
          => /\ req'[s].pc = "done" /\ req'[s].code = 200 /\ req'[s].hit
             /\ req'[s].nq = 0
             /\ req'[s].body = cache[req'[s].key].value
             /\ cache' = cache /\ reports' = reports /\ upvotes' = upvotes
             /\ comments' = comments
       /\ (req[s].pc = "setEx" /\ req'[s].pc = "done" /\ req'[s].code = 200)
          => /\ req'[s].key \in DOMAIN cache'
             /\ cache'[req'[s].key].value = req'[s].body
    ]_vars

C1_Witness ==
  \E s \in Slots : /\ req[s].kind = "list" /\ req[s].hit /\ req[s].code = 200
                   /\ req[s].body # << >> /\ req[s].nq = 0

(* C2: sequentially, the first listing the affected user asks for after a   *)
(* successful mutation is computed from the store as the mutation left it,  *)
(* for every filter: if it is served from the cache, the text equals a      *)
(* fresh listing.                                                           *)
C2_NextListingReflectsMutation ==
  [][\A s \in Slots :
       (/\ req[s].pc = "done" /\ req[s].kind \in SixMutations
        /\ req[s].code \in Success
        /\ Starts(s) /\ req'[s].kind = "list" /\ req'[s].hit
        /\ req'[s].user = Affected(req[s]))
       => req'[s].body = FreshListing(req'[s].status, req'[s].type, req'[s].user)
    ]_vars

(* C3: once invalidate(userId) has returned without a failure, no listing   *)
(* key of that user is in the cache, for every status and type filter the   *)
(* listing accepts.                                                         *)
C3_InvalidateClearsEveryUserKey ==
  \A s \in Slots :
    (req[s].pc = "done" /\ req[s].inv \in Users /\ req[s].cause # "cache")
    => \A st \in {"all", "Pending", "In Progress", "Fixed", "Rejected"},
          ty \in {"all", "Pothole", "Streetlight", "Graffiti", "Other"} :
         ("reports:" \o st \o ":" \o ty \o ":user:" \o req[s].inv) \notin DOMAIN cache

(* C4: a create, edit, delete, upvote toggle or comment add that answers    *)
(* with success had committed its write before its last step and called     *)
(* invalidate for the acting user in that step, after the write and before  *)
(* the response; a successful admin status change deleted the dashboard key *)
(* the same way.                                                            *)
C4_SuccessImpliesInvalidated ==
  [][\A s \in Slots :
       (/\ req'[s].pc = "done" /\ (nreq' # nreq \/ req[s].pc # "done")
        /\ req'[s].n = nreq'
        /\ req'[s].kind \in SixMutations /\ req'[s].code \in Success)
       => /\ nreq' = nreq
          /\ req[s].wrote /\ req[s].inv = Absent
          /\ req'[s].inv = (IF req'[s].kind = "admin" THEN "admin:dashboard"
                            ELSE req'[s].user)
    ]_vars

C4_Witness ==
  \E s \in Slots : /\ req[s].pc = "done" /\ req[s].kind = "delete"
                   /\ req[s].code = 200 /\ req[s].inv = req[s].user

(* C5: a mutation whose write is committed and whose invalidation fails     *)
(* still answers with its success code.                                     *)
C5_InvalidationFailureSwallowed ==
  \A s \in Slots :
    (/\ req[s].pc = "done" /\ req[s].kind \in SixMutations
     /\ req[s].wrote /\ req[s].cause = "cache")
    => req[s].code \in Success

(* C6: a listing or dashboard read whose cache get or cache set fails still *)
(* answers 200 with the result computed from the Document Store.            *)
C6_CacheFailureIsMiss ==
  \A s \in Slots :
    (req[s].pc = "done" /\ req[s].kind \in ReadKinds /\ req[s].cause = "cache")
    => req[s].code = 200

(* C7: when the Reports query or an enrichment query of a listing miss      *)
(* fails, the request answers with an error, the cache is left as it was    *)
(* with no entry under the key, and the next listing on the same key misses *)
(* again and goes to the store.                                             *)
C7_StoreFailureCachesNothing ==
  [][\A s \in Slots :
       /\ (req[s].kind = "list" /\ req[s].pc \in {"find", "enrich"}
             /\ req'[s].cause = "store")
          => /\ req'[s].pc = "done" /\ req'[s].code = 500
             /\ cache' = cache
             /\ req'[s].key \notin DOMAIN cache'
       /\ (/\ req[s].pc = "done" /\ req[s].kind = "list" /\ req[s].cause = "store"
           /\ Starts(s) /\ req'[s].kind = "list" /\ req'[s].key = req[s].key
           /\ req'[s].cause # "cache")
          => (req'[s].pc = "find" /\ ~req'[s].hit)
    ]_vars

C7_Witness ==
  \E s \in Slots : /\ req[s].kind = "list" /\ req[s].pc = "done"
                   /\ req[s].cause = "store" /\ req[s].nq = 4
                   /\ req[s].key \notin DOMAIN cache
                   /\ DOMAIN reports # {}

(* C8: a listing whose status or type is outside the accepted values is     *)
(* answered 400 at once: no cache operation, no store query, cache and      *)
(* store unchanged.                                                         *)
C8_InvalidFilterRejectedFirst ==
  [][\A s \in Slots :
       (/\ Starts(s) /\ req'[s].kind = "list"
        /\ \/ req'[s].status \notin {Absent, "all", "Pending", "In Progress", "Fixed", "Rejected"}
           \/ req'[s].type \notin {Absent, "all", "Pothole", "Streetlight", "Graffiti", "Other"})
       => /\ req'[s].pc = "done" /\ req'[s].code = 400
          /\ req'[s].nc = 0 /\ req'[s].nq = 0
          /\ cache' = cache /\ reports' = reports /\ upvotes' = upvotes
          /\ comments' = comments
    ]_vars

C8_Witness ==
  \E s \in Slots : /\ req[s].kind = "list" /\ req[s].code = 400
                   /\ req[s].status = "Bogus" /\ cache # << >>

(* the listing keys of every accepted filter and every user *)
AllListKeys ==
  { ListCacheKey(a[1], a[2], a[3]) : a \in StatusFilters \X TypeFilters \X Users }

(* C9: a listing reads and writes the key reports:<status>:<type>:user:<id>  *)
(* of its own filters and user, the dashboard the key admin:dashboard; the  *)
(* listing key is injective in (status, type, user) and never the dashboard *)
(* key; a listing served from the cache to a user was written by a read of  *)
(* that same user, and listing entries are written by users only.           *)
C9_KeyScopedToRequester ==
  /\ \A s \in Slots :
       (req[s].kind = "list" /\ req[s].key # Absent)
       => /\ req[s].key = "reports:" \o req[s].status \o ":" \o req[s].type
                            \o ":user:" \o req[s].user
          /\ (req[s].hit => req[s].servedWriter = req[s].user)
  /\ \A s \in Slots : req[s].kind = "dash" => req[s].key = "admin:dashboard"
  /\ \A k \in DOMAIN cache :
       IF k = "admin:dashboard" THEN cache[k].writer = Admin
                                ELSE cache[k].writer \in Users
  /\ Cardinality(AllListKeys) = Cardinality(StatusFilters \X TypeFilters \X Users)
  /\ "admin:dashboard" \notin AllListKeys

C9_Witness ==
  \E s \in Slots :
    /\ req[s].kind = "list" /\ req[s].hit
    /\ \E k \in DOMAIN cache : cache[k].writer \in Users \ {req[s].user}

(* C10: every entry is set with a TTL of 300 seconds and is never in the    *)
(* cache, nor served, more than 300 seconds after it was written.           *)
C10_TtlBoundsServing ==
  /\ \A k \in DOMAIN cache : cache[k].ttl = 300 /\ cache[k].age <= 300
  /\ \A s \in Slots : req[s].hit => req[s].servedAge <= 300

C10_Witness ==
  \E s \in Slots : req[s].hit /\ req[s].servedAge > 0

(* C11: one mutation M by user U interleaved with a listing miss by U on a  *)
(* key that invalidate(U) covers: once invalidate(U) has completed, the     *)
(* entry under that key is absent or holds a listing computed from the      *)
(* store as M left it.  (While M and the listing occupy the two slots no    *)
(* other request has written to the store since M.)                         *)
C11_NoPreMutationDataAfterInvalidation ==
  \A m \in ConcSlots, l \in ConcSlots :
    (/\ req[m].pc = "done" /\ req[m].kind \in SixMutations
     /\ req[m].code \in Success /\ req[m].inv \in Users
     /\ req[l].kind = "list" /\ req[l].user = req[m].inv
     /\ req[l].status = "all" /\ req[l].key \in DOMAIN cache)
    => cache[req[l].key].value = FreshListing(req[l].status, req[l].type, req[l].user)

(* the views of a listing body *)
Views(body) == Parse(body)

(* requests 1 to 4 are: A creates report #1, A lists (all, all), A toggles  *)
(* an upvote on #1, A lists (all, all); the first k of them have answered   *)
Scenario(A, k) ==
  /\ req[1].kind = "create" /\ req[1].user = A /\ req[1].code = 201
  /\ k >= 2 => /\ req[2].kind = "list" /\ req[2].user = A /\ req[2].pc = "done"
               /\ req[2].status = "all" /\ req[2].type = "all"
  /\ k >= 3 => /\ req[3].kind = "upvote" /\ req[3].user = A /\ req[3].rid = 1
               /\ req[3].pc = "done"
  /\ k >= 4 => /\ req[4].kind = "list" /\ req[4].user = A /\ req[4].pc = "done"
               /\ req[4].status = "all" /\ req[4].type = "all"

(* C12: A creates report #1; A's listing (all, all) misses, returns #1 with *)
(* upvoteCount 0, commentCount 0, hasUpvoted false, and caches that; A      *)
(* toggles an upvote on #1, which deletes the entry; A's next listing       *)
(* (all, all) misses again and returns #1 with upvoteCount 1 and hasUpvoted *)
(* true.                                                                    *)
C12_CreateListUpvoteList ==
  \A A \in Users :
    /\ Scenario(A, 2)
       => /\ req[2].code = 200 /\ ~req[2].hit /\ req[2].nq = 4
          /\ Len(Views(req[2].body)) = 1
          /\ Views(req[2].body)[1].id = 1
          /\ Views(req[2].body)[1].upvoteCount = 0
          /\ Views(req[2].body)[1].commentCount = 0
          /\ Views(req[2].body)[1].hasUpvoted = FALSE
          /\ (req[3].pc = "idle"
                => /\ req[2].key \in DOMAIN cache
                   /\ cache[req[2].key].value = req[2].body)
    /\ Scenario(A, 3)
       => /\ req[3].code = 200 /\ req[3].body = <<1, TRUE>>
          /\ (req[4].pc = "idle" => req[2].key \notin DOMAIN cache)
    /\ Scenario(A, 4)
       => /\ req[4].code = 200 /\ ~req[4].hit /\ req[4].nq = 4
          /\ Len(Views(req[4].body)) = 1
          /\ Views(req[4].body)[1].id = 1
          /\ Views(req[4].body)[1].upvoteCount = 1
          /\ Views(req[4].body)[1].hasUpvoted = TRUE

C12_Witness ==
  /\ Scenario("u1", 4)
  /\ ~req[2].hit /\ ~req[4].hit
  /\ Views(req[4].body)[1].upvoteCount = 1
  /\ req[4].key \in DOMAIN cache

(* requests i and i + 1 are upvote toggles by the same user on the same     *)
(* report, the first of them made when the user had not upvoted it          *)
TogglePair(i) ==
  /\ req[i].kind = "upvote" /\ req[i].pc = "done" /\ req[i].code = 200
  /\ req[i].body[2] = TRUE
  /\ req[i + 1].kind = "upvote"
  /\ req[i + 1].user = req[i].user /\ req[i + 1].rid = req[i].rid

(* C13: two upvote toggles by U on R, one after the other, U not having     *)
(* upvoted R: the first adds exactly one Upvote record and reports upvoted  *)
(* true with the count after it (the original count plus one); the second   *)
(* reports upvoted false with the original count and leaves the store with  *)
(* that count and no Upvote (U, R); a listing miss by U that follows shows  *)
(* R with hasUpvoted false and the original count.                          *)
C13_ToggleTwiceRestores ==
  [][\A i \in 1..(MaxHist - 1) :
       LET U == req[i].user
           R == req[i].rid
       IN /\ (req[i].kind = "upvote" /\ req[i].pc = "write" /\ ~req[i].local.existing)
             => /\ req'[i].pc = "count"
                /\ upvotes' = [upvotes EXCEPT ![<<U, R>>] = 1]
          /\ (req[i].kind = "upvote" /\ req[i].pc = "inv" /\ ~req[i].local.existing)
             => /\ req'[i].code = 200
                /\ req'[i].body = << SumUp(Users, R), TRUE >>
                /\ upvotes[<<U, R>>] = 1
          /\ (TogglePair(i) /\ req[i + 1].pc = "inv")
             => /\ req'[i + 1].code = 200
                /\ req'[i + 1].body = << req[i].body[1] - 1, FALSE >>
                /\ upvotes[<<U, R>>] = 0
                /\ SumUp(Users, R) = req[i].body[1] - 1
                /\ upvotes' = upvotes
          /\ (/\ TogglePair(i) /\ req[i + 1].pc = "done" /\ i + 2 <= MaxHist
              /\ req[i + 2].kind = "list" /\ req[i + 2].user = U
              /\ req[i + 2].pc = "setEx")
             => /\ ~req'[i + 2].hit /\ req'[i + 2].code = 200
                /\ \A k \in 1..Len(Views(req'[i + 2].body)) :
                     Views(req'[i + 2].body)[k].id = R
                     => /\ Views(req'[i + 2].body)[k].hasUpvoted = FALSE
                        /\ Views(req'[i + 2].body)[k].upvoteCount = req[i].body[1] - 1
    ]_vars

C13_Witness ==
  \E i \in 1..(MaxHist - 2) :
    /\ TogglePair(i) /\ req[i + 1].pc = "done" /\ req[i + 1].body = <<0, FALSE>>
    /\ req[i + 2].kind = "list" /\ req[i + 2].user = req[i].user
    /\ req[i + 2].pc = "done" /\ ~req[i + 2].hit
    /\ \E k \in 1..Len(Views(req[i + 2].body)) : Views(req[i + 2].body)[k].id = req[i].rid

(* C14: a listing miss that no mutation overlaps returns one view for each  *)
(* report that matches its filters, and each view has upvoteCount = the     *)
(* number of Upvote records of the report, commentCount = the number of     *)
(* Comment records of the report and hasUpvoted = there is an Upvote        *)
(* (requester, report); with no such records they are 0, 0 and false.       *)
C14_EnrichmentMatchesStore ==
  [][\A s \in Slots :
       (req[s].kind = "list" /\ req[s].pc = "setEx" /\ req'[s].code = 200)
       => LET vs == Views(req'[s].body)
          IN /\ { vs[k].id : k \in 1..Len(vs) } =
                  { i \in DOMAIN reports :
                      /\ req[s].status \in {"all", reports[i].status}
                      /\ req[s].type \in {"all", reports[i].issueType} }
             /\ \A k \in 1..Len(vs) :
                  /\ vs[k].upvoteCount = SumUp(Users, vs[k].id)
                  /\ vs[k].commentCount =
                       Cardinality({ c \in comments : c.report = vs[k].id })
                  /\ vs[k].hasUpvoted = (upvotes[<<req[s].user, vs[k].id>>] > 0)
                  /\ (/\ \A u \in Users : upvotes[<<u, vs[k].id>>] = 0
                      /\ \A c \in comments : c.report # vs[k].id)
                     => /\ vs[k].upvoteCount = 0 /\ vs[k].commentCount = 0
                        /\ vs[k].hasUpvoted = FALSE
    ]_vars

C14_Witness ==
  \E s \in Slots :
    /\ req[s].kind = "list" /\ req[s].pc = "done" /\ req[s].code = 200 /\ ~req[s].hit
    /\ Len(req[s].body) = 1
    /\ Views(req[s].body)[1].commentCount = 1
    /\ Views(req[s].body)[1].upvoteCount = 0
    /\ Views(req[s].body)[1].user # req[s].user

(* C15: in every reachable state, whatever the interleaving of concurrent   *)
(* upvote toggles by the same or by different users, the Upvotes collection *)
(* holds at most one record for each (user, report) pair.                   *)
C15_OneUpvotePerPair ==
  \A p \in DOMAIN upvotes : upvotes[p] <= 1

(* two toggles of one user on one report both found no Upvote; one created  *)
(* the record and the create of the other was rejected by the index         *)
C15_Witness ==
  /\ req[1].kind = "upvote" /\ req[2].kind = "upvote"
  /\ req[1].user = req[2].user /\ req[1].rid = req[2].rid
  /\ req[1].wrote /\ req[1].pc = "done" /\ req[1].body = <<1, TRUE>>
  /\ req[2].cause = "store" /\ req[2].nq = 2
  /\ upvotes[<<req[1].user, req[1].rid>>] = 1

(* distance of t tenths of a day from the mean sum / n milliseconds, times n *)
Off(t, sum, n) ==
  IF t * ((n * DayMs) \div 10) < sum THEN sum - t * ((n * DayMs) \div 10)
  ELSE t * ((n * DayMs) \div 10) - sum

(* the time from creation to the last update of report i *)
Resolution(i) == reports[i].updatedAt - reports[i].createdAt

(* C16: on a dashboard miss avgResolution is 0 when no report is Fixed;     *)
(* otherwise it is the mean of (updatedAt - createdAt) over the Fixed       *)
(* reports, in days, rounded to one decimal place: in tenths of a day, no   *)
(* other number of tenths is nearer to the mean.  Two Fixed reports         *)
(* resolved in 1.0 and 3.0 days give 2.0.                                   *)
C16_AvgResolutionRounded ==
  \A s \in Slots :
    (req[s].kind = "dash" /\ req[s].pc = "done" /\ req[s].code = 200 /\ ~req[s].hit)
    => LET avg == ParseDash(req[s].body).avgResolution
           fixed == { i \in DOMAIN reports : reports[i].status = "Fixed" }
           n == Cardinality(fixed)
           sum == SumResolution(fixed)
       IN /\ (n = 0 => avg = 0)
          /\ (n > 0 => /\ avg >= 0
                       /\ \A t \in 0..(avg + 1) : Off(avg, sum, n) <= Off(t, sum, n))
          /\ (/\ n = 2
              /\ { Resolution(i) : i \in fixed } = { DayMs, 3 * DayMs })
             => avg = 20

C16_Witness ==
  \E s \in Slots :
    /\ req[s].kind = "dash" /\ req[s].pc = "done" /\ req[s].code = 200 /\ ~req[s].hit
    /\ { i \in DOMAIN reports : reports[i].status = "Fixed" } = {1, 2}
    /\ { Resolution(i) : i \in {1, 2} } = { DayMs, 3 * DayMs }
    /\ ParseDash(req[s].body).avgResolution = 20
    /\ DashCacheKey \in DOMAIN cache

(* C17: a dashboard miss that no mutation overlaps returns total = number   *)
(* of reports, pending = number of Pending reports, fixed = number of Fixed *)
(* reports and a typeDistribution that lists exactly the issue types that   *)
(* occur, each with the number of reports of that type; this snapshot is    *)
(* the value stored under admin:dashboard.                                  *)
C17_DashboardCountsMatchStore ==
  [][\A s \in Slots :
       (req[s].kind = "dash" /\ req[s].pc = "setEx" /\ req'[s].code = 200)
       => LET snap == ParseDash(req'[s].body)
          IN /\ snap.total = Cardinality(DOMAIN reports)
             /\ snap.pending =
                  Cardinality({ i \in DOMAIN reports : reports[i].status = "Pending" })
             /\ snap.fixed =
                  Cardinality({ i \in DOMAIN reports : reports[i].status = "Fixed" })
             /\ DOMAIN snap.typeDistribution =
                  { reports[i].issueType : i \in DOMAIN reports }
             /\ \A t \in DOMAIN snap.typeDistribution :
                  snap.typeDistribution[t] =
                    Cardinality({ i \in DOMAIN reports : reports[i].issueType = t })
             /\ "admin:dashboard" \in DOMAIN cache'
             /\ cache'["admin:dashboard"].value = req'[s].body
    ]_vars

C17_Witness ==
  \E s \in Slots :
    /\ req[s].kind = "dash" /\ req[s].pc = "done" /\ req[s].code = 200 /\ ~req[s].hit
    /\ ParseDash(req[s].body).total = 1
    /\ ParseDash(req[s].body).fixed = 1
    /\ ParseDash(req[s].body).pending = 0
    /\ DOMAIN ParseDash(req[s].body).typeDistribution = {"Graffiti"}

(* requests of users that are not the admin status change *)
UserKinds ==
  {"list", "create", "edit", "delete", "upvote", "comment", "commentEdit", "commentDelete"}

KeysOf ==
  [u \in Users |-> { ListCacheKey(a[1], a[2], u) : a \in StatusFilters \X TypeFilters }]

(* C19: no step of an upvote toggle or of a comment add by user A changes   *)
(* or deletes an entry that is not a listing entry of A: the listing        *)
(* entries of every other user B stay as they are, so B's cached view of    *)
(* the report keeps the counts it was computed with.                        *)
C19_OtherUsersEntriesKept ==
  [][\A s \in HistSlots :
       (req'[s] # req[s] /\ req'[s].kind \in {"upvote", "comment"})
       => \A k \in DOMAIN cache :
            k \notin KeysOf[req'[s].user]
            => (k \in DOMAIN cache' /\ cache'[k] = cache[k])
    ]_vars

(* B cached a listing of report 1, then A upvoted it: B's entry still says  *)
(* upvoteCount 0 while the store holds one Upvote                           *)
C19_Witness ==
  \E i \in HistSlots, B \in Users :
    /\ req[i].kind = "upvote" /\ req[i].pc = "done" /\ req[i].code = 200
    /\ req[i].user # B /\ req[i].rid = 1 /\ req[i].body = <<1, TRUE>>
    /\ ListCacheKey("all", "all", B) \in DOMAIN cache
    /\ Len(cache[ListCacheKey("all", "all", B)].value) = 1
    /\ Views(cache[ListCacheKey("all", "all", B)].value)[1].upvoteCount = 0
    /\ SumUp(Users, 1) = 1

(* C20: in every state reached, a report has a rejection reason exactly     *)
(* when its status is Rejected, and the reason is not blank; an admin       *)
(* change to Rejected stores the reason it was given, a change to another   *)
(* status removes it, and no step of an owner's create or edit sets,        *)
(* changes or clears the reason or the status of a report that is there.    *)
C20_ReasonIffRejected ==
  [][/\ \A i \in DOMAIN reports' :
          /\ (reports'[i].rejectReason # Absent) = (reports'[i].status = "Rejected")
          /\ reports'[i].rejectReason \notin {"", " "}
     /\ \A s \in Slots :
          /\ (req'[s].kind = "admin" /\ req'[s].wrote /\ ~req[s].wrote)
             => reports'[req'[s].rid].rejectReason =
                  (IF req'[s].status = "Rejected" THEN req'[s].reason ELSE Absent)
          /\ (req'[s] # req[s] /\ req'[s].kind \in {"create", "edit"})
             => \A i \in DOMAIN reports :
                  /\ i \in DOMAIN reports'
                  /\ reports'[i].rejectReason = reports[i].rejectReason
                  /\ reports'[i].status = reports[i].status
          /\ (req'[s].kind = "create" /\ req'[s].wrote /\ ~req[s].wrote)
             => reports'[req'[s].rid].rejectReason = Absent
    ]_vars

(* the owner edited a report that had been rejected with a reason *)
C20_Witness ==
  \E s \in Slots :
    /\ req[s].kind = "edit" /\ req[s].pc = "done" /\ req[s].code = 200
    /\ req[s].rid \in DOMAIN reports
    /\ reports[req[s].rid].status = "Rejected"
    /\ reports[req[s].rid].rejectReason = "dup"

(* C21: an edit or delete request on a report that is there, made by its    *)
(* owner while the status is not Pending, or made by another user, is       *)
(* refused with 400 or 403 in its first step and no step of it changes the  *)
(* report or any cache entry.                                               *)
C21_OwnerChangesOnlyWhilePending ==
  [][\A s \in Slots :
       (/\ req'[s] # req[s] /\ req'[s].kind \in {"edit", "delete"}
        /\ req'[s].rid \in DOMAIN reports
        /\ \/ reports[req'[s].rid].status # "Pending"
           \/ reports[req'[s].rid].user # req'[s].user)
       => /\ req'[s].pc = "done" /\ req'[s].code \in {400, 403}
          /\ reports' = reports /\ cache' = cache
    ]_vars

(* C22: a listing miss returns exactly the reports whose status is the      *)
(* status filter (unless it is all) and whose issue type is the type filter *)
(* (unless it is all), each of them once, the later created first; each     *)
(* view carries the fields of its report.                                   *)
C22_ListingFilteredAndOrdered ==
  [][\A s \in Slots :
       (req[s].kind = "list" /\ req[s].pc = "setEx" /\ req'[s].code = 200)
       => LET vs == Views(req'[s].body)
              match == { i \in DOMAIN reports :
                           /\ (req[s].status = "all" \/ reports[i].status = req[s].status)
                           /\ (req[s].type = "all" \/ reports[i].issueType = req[s].type) }
          IN /\ { vs[k].id : k \in 1..Len(vs) } = match
             /\ Len(vs) = Cardinality(match)
             /\ \A k \in 1..(Len(vs) - 1) : vs[k].createdAt >= vs[k + 1].createdAt
             /\ \A k \in 1..Len(vs) :
                  /\ vs[k].status = reports[vs[k].id].status
                  /\ vs[k].issueType = reports[vs[k].id].issueType
                  /\ vs[k].createdAt = reports[vs[k].id].createdAt
                  /\ vs[k].user = reports[vs[k].id].user
    ]_vars

C22_Witness ==
  \E s \in Slots :
    /\ req[s].kind = "list" /\ req[s].pc = "done" /\ req[s].code = 200 /\ ~req[s].hit
    /\ Len(req[s].body) = 2
    /\ Views(req[s].body)[1].id = 2 /\ Views(req[s].body)[2].id = 1
    /\ reports[1].issueType # reports[2].issueType

(* the filters and user of every listing key *)
ListTriples == StatusFilters \X TypeFilters \X Users
KeyOf == [a \in ListTriples |-> ListCacheKey(a[1], a[2], a[3])]

(* every entry in the cache is what a read of the store as it is now gives *)
AllEntriesFresh ==
  /\ \A a \in ListTriples :
       KeyOf[a] \in DOMAIN cache
       => cache[KeyOf[a]].value = FreshListing(a[1], a[2], a[3])
  /\ "admin:dashboard" \in DOMAIN cache
     => LET snap == ParseDash(cache["admin:dashboard"].value)
        IN /\ snap.total = Cardinality(DOMAIN reports)
           /\ snap.pending =
                Cardinality({ i \in DOMAIN reports : reports[i].status = "Pending" })
           /\ snap.fixed =
                Cardinality({ i \in DOMAIN reports : reports[i].status = "Fixed" })
           /\ snap.typeDistribution = ByTypeAgg

(* C23: with time progressing, whatever invalidations were missed or       *)
(* failed, from some point on every listing key and the dashboard key hold  *)
(* no entry computed before the last mutation: every entry equals what a    *)
(* read of the live store gives, so every read from then on, hit or miss,   *)
(* returns live data.                                                       *)
C23_TtlEventuallyFresh == <>[]AllEntriesFresh

(* a listing was served from an entry that a later-missed mutation had made *)
(* stale, and the entry has expired since                                   *)
C23_Witness ==
  \E s \in Slots :
    /\ req[s].kind = "list" /\ req[s].hit /\ req[s].code = 200
    /\ req[s].body # FreshListing(req[s].status, req[s].type, req[s].user)
    /\ req[s].key \notin DOMAIN cache

(* C24: in every view a listing returns or caches, under every interleaving *)
(* with upvote toggles, hasUpvoted true implies upvoteCount >= 1.           *)
C24_HasUpvotedImpliesCounted ==
  /\ \A s \in ConcSlots :
       (req[s].kind = "list" /\ req[s].pc = "done" /\ req[s].code = 200)
       => \A k \in 1..Len(req[s].body) :
            Views(req[s].body)[k].hasUpvoted => Views(req[s].body)[k].upvoteCount >= 1
  /\ \A key \in DOMAIN cache :
       \A k \in 1..Len(cache[key].value) :
         Views(cache[key].value)[k].hasUpvoted
         => Views(cache[key].value)[k].upvoteCount >= 1

RECURSIVE SumCounts(_)
SumCounts(f) ==
  IF DOMAIN f = {} THEN 0
  ELSE LET t == CHOOSE x \in DOMAIN f : TRUE
       IN f[t] + SumCounts([x \in DOMAIN f \ {t} |-> f[x]])

Consistent(snap) ==
  /\ snap.pending + snap.fixed <= snap.total
  /\ SumCounts(snap.typeDistribution) = snap.total

(* C25: every dashboard snapshot returned or cached has pending + fixed <=  *)
(* total and typeDistribution counts that sum to total, under every         *)
(* interleaving of the dashboard's queries with report creates and deletes  *)
(* and admin status changes.                                                *)
C25_DashboardSnapshotConsistent ==
  /\ \A s \in ConcSlots :
       (req[s].kind = "dash" /\ req[s].pc = "done" /\ req[s].code = 200)
       => Consistent(ParseDash(req[s].body))
  /\ "admin:dashboard" \in DOMAIN cache
     => Consistent(ParseDash(cache["admin:dashboard"].value))

(* C26: after a user's DELETE of an own comment has answered 200, the first *)
(* listing that user asks for next returns, for each report, a commentCount *)
(* equal to the number of Comment records the store holds for it.           *)
C26_ListingAfterCommentDelete ==
  [][\A s \in Slots :
       (/\ req[s].pc = "done" /\ req[s].kind = "commentDelete" /\ req[s].code = 200
        /\ Starts(s) /\ req'[s].kind = "list" /\ req'[s].user = req[s].user
        /\ req'[s].pc = "done" /\ req'[s].code = 200)
       => \A k \in 1..Len(req'[s].body) :
            Views(req'[s].body)[k].commentCount =
              Cardinality({ c \in comments : c.report = Views(req'[s].body)[k].id })
    ]_vars

(* C27: after an admin status change on report R has answered 200, the      *)
(* first listing R's owner asks for next, whatever its filters, has R in it *)
(* exactly when R's new status passes the status filter (and its type the   *)
(* type filter), and shows R with the new status.                           *)
C27_ListingAfterStatusChange ==
  [][\A s \in Slots :
       (/\ req[s].pc = "done" /\ req[s].kind = "admin" /\ req[s].code = 200
        /\ Starts(s) /\ req'[s].kind = "list"
        /\ req'[s].user = reports[req[s].rid].user
        /\ req'[s].pc = "done" /\ req'[s].code = 200)
       => LET R == req[s].rid
              vs == Views(req'[s].body)
          IN /\ (\E k \in 1..Len(vs) : vs[k].id = R)
                  = (/\ req'[s].status \in {"all", reports[R].status}
                     /\ req'[s].type \in {"all", reports[R].issueType})
             /\ \A k \in 1..Len(vs) : vs[k].id = R => vs[k].status = reports[R].status
    ]_vars

(* C28: the first two requests of a run being upvote toggles by the same    *)
(* user on the same report, overlapping in any way, once both have answered *)
(* both answers are 200 and the Upvote (user, report) is absent again, as   *)
(* it was before them.                                                      *)
C28_TogglePairLinearizable ==
  \A a \in ConcSlots, b \in ConcSlots :
    (/\ a # b
     /\ req[a].kind = "upvote" /\ req[b].kind = "upvote"
     /\ req[a].n = 1 /\ req[b].n = 2
     /\ req[a].user = req[b].user /\ req[a].rid = req[b].rid
     /\ req[a].pc = "done" /\ req[b].pc = "done")
    => /\ req[a].code = 200 /\ req[b].code = 200
       /\ upvotes[<<req[a].user, req[a].rid>>] = 0

(* C29: every report that a step of an owner's DELETE removes from the      *)
(* store has status Pending in the store at that step, whatever admin       *)
(* status change ran between the request's check and its deleteOne.         *)
C29_DeleteRemovesOnlyPending ==
  [][\A s \in ConcSlots :
       (/\ req[s].kind = "delete" /\ req[s].pc = "write"
        /\ req[s].rid \in DOMAIN reports
        /\ req[s].rid \notin DOMAIN reports')
       => reports[req[s].rid].status = "Pending"
    ]_vars

(* C30: after a report create or delete has answered with success, the      *)
(* dashboard request made next answers with total, pending and              *)
(* typeDistribution equal to those of the Reports collection as it is then. *)
C30_DashboardAfterCreateOrDelete ==
  [][\A s \in Slots :
       (/\ req[s].pc = "done" /\ req[s].kind \in {"create", "delete"}
        /\ req[s].code \in Success
        /\ Starts(s) /\ req'[s].kind = "dash"
        /\ req'[s].pc = "done" /\ req'[s].code = 200)
       => LET snap == ParseDash(req'[s].body)
          IN /\ snap.total = CountReports(Absent)
             /\ snap.pending = CountReports("Pending")
             /\ snap.typeDistribution = ByTypeAgg
    ]_vars

====
